---- MODULE Spec2Model ----
(***************************************************************************)
(* Render-blocking analysis of henzlym/critical-css: the recommendation   *)
(* engine (src/src/lib/recommendation-engine.js) as it is driven by the    *)
(* analysis handler (src/unnamed/part_019), the vendor matcher             *)
(* (src/src/lib/domain-matcher.js) and the above-the-fold pruner           *)
(* (src/unnamed/part_016).                                                 *)
(*                                                                         *)
(* Conventions.                                                            *)
(*  - A JavaScript object is a record.  A property the object does not     *)
(*    have is a field the record does not have ("f" \in DOMAIN r), so      *)
(*    `r?.f` reads as Has(r, "f") /\ r.f.                                  *)
(*  - A null object (script.size when no timing matched) is Undefined.     *)
(*  - A text (a script's src or textContent) is a sequence of fragments,   *)
(*    in the order they occur in the text.  For each fragment the module   *)
(*    tabulates which regular expressions of SEO_CRITICAL_PATTERNS match   *)
(*    inside it and which keywords of analyzeInlineScript it contains; a   *)
(*    null text and the empty text are both <<>> (the code reads both      *)
(*    through `|| ''`).                                                    *)
(*  - The message texts of a recommendation (reason, caveat, currentCode)  *)
(*    take no part in any decision and are left out; the codeExample of an *)
(*    SEO-critical script is computed by seoCodeExample, not stored.       *)
(***************************************************************************)
EXTENDS Integers, Sequences, FiniteSets, TLC

VARIABLES processedScripts, insights, pc, probe, scores,
          resourceData, prioritized,
          vendorDatabase, call, returned,
          document, prunes,
          req, browser, cssLinks, stylesheets, error, res, line,
          pageUrl, pageLoading, pageResults, pageError, handleSubmit, submits

\* what one analysis run holds besides its processed scripts: the scripts
\* page.evaluate returned and the lists prioritizeScripts returned
runVars == <<resourceData, prioritized>>

\* a call of the library from outside the handler: the vendor table that was
\* loaded, the arguments and what came back
libraryVars == <<vendorDatabase, call, returned>>

\* the page the above-the-fold pruner works on and what it returned
prunerVars == <<document, prunes>>

\* one request to an API route: the query, the browser the handler launched,
\* the stylesheet links of the page, the stylesheets fetched, the error caught,
\* the response sent and the statement the handler is at
apiVars == <<req, browser, cssLinks, stylesheets, error, res, line>>

\* RenderBlockingPage: its url, loading, results and error state, the calls
\* of handleSubmit that have not returned, and how many submits there were
pageVars == <<pageUrl, pageLoading, pageResults, pageError, handleSubmit, submits>>

vars == <<processedScripts, insights, pc, probe, scores, runVars, libraryVars, prunerVars,
          apiVars, pageVars>>

\* null / undefined where the code holds an object
Undefined == [undefined |-> TRUE]

Has(r, f) == f \in DOMAIN r

Range(seq) == {seq[i] : i \in 1..Len(seq)}

Min(a, b) == IF a < b THEN a ELSE b

Max(a, b) == IF a > b THEN a ELSE b

\* no run under way, no library call made, no page pruned
RunIdle == resourceData = <<>> /\ prioritized = <<>>

LibraryIdle == vendorDatabase = <<>> /\ call = Undefined /\ returned = Undefined

PrunerIdle == document = Undefined /\ prunes = <<>>

\* no request to an API route, and the page as useState initialises it
ApiIdle ==
    /\ req = Undefined /\ browser = Undefined /\ cssLinks = <<>>
    /\ stylesheets = <<>> /\ error = Undefined /\ res = Undefined /\ line = "none"

PageIdle ==
    /\ pageUrl = "" /\ pageLoading = FALSE
    /\ pageResults = Undefined /\ pageError = Undefined
    /\ handleSubmit = <<>> /\ submits = 0

RECURSIVE SumSeq(_)
SumSeq(s) == IF s = <<>> THEN 0 ELSE Head(s) + SumSeq(Tail(s))

(***************************************************************************)
(* Bounds                                                                  *)
(***************************************************************************)
\* scripts extracted from one analysed page
MaxScripts == 2

(***************************************************************************)
(* Texts                                                                   *)
(***************************************************************************)
\* the regular expressions of SEO_CRITICAL_PATTERNS that match inside a fragment
PatternHits(frag) ==
    CASE frag = "google-analytics.com/analytics.js" -> {"gaUrl"}
      [] frag = "googletagmanager.com/gtm.js"       -> {"gtmUrl"}
      [] frag = "GTM-ABC123"                        -> {"gtmId"}
      [] frag = "googletagmanager.com/gtag/js"      -> {"gtagUrl"}
      [] frag = "gtm.start"                         -> {"gtmStart"}
      [] frag = "gtag('config'"                     -> {"gtagConfig"}
      [] frag = "ga('create'"                       -> {"gaCreate"}
      [] frag = "GoogleAnalyticsObject"             -> {"gaObject"}
      [] frag = "fbq('init'"                        -> {"fbqInit"}
      [] frag = "connect.facebook.net/fbevents.js"  -> {"fbEvents"}
      [] frag = "\"@type\":\"FAQPage\""             -> {"schemaType"}
      [] frag = "cookieconsent"                     -> {"cookieconsent"}
      [] frag = "cdn.onetrust.com/otSDK.js"         -> {"onetrust"}
      [] frag = "consent.cookiebot.com/uc.js"       -> {"cookiebot"}
      [] frag = "trustarc"                          -> {"trustarc"}
      [] frag = "privacymanager"                    -> {"privacymanager"}
      [] OTHER                                      -> {}

\* the keywords of analyzeInlineScript that the lower-cased fragment includes
Keywords(frag) ==
    CASE frag = "gtag('config'"          -> {"config", "gtag"}
      [] frag = "google-analytics.com/analytics.js" -> {"analytics"}
      [] frag = "fbq('init'"             -> {"init", "fbq"}
      [] frag = "gtm.start"              -> {}
      [] frag = "GoogleAnalyticsObject"  -> {"analytics"}
      [] frag = "window.appState="       -> {"window.", "="}
      [] frag = "setupMenu()"            -> {"setup"}
      [] frag = "addEventListener"       -> {"addeventlistener"}
      [] frag = "jQuery(ready)"          -> {"jquery"}
      [] frag = "trackEvent()"           -> {"track"}
      [] frag = "console.log()"          -> {}
      [] OTHER                           -> {}

\* RegExp.prototype.test of one pattern on a text
Test(pattern, text) ==
    IF pattern = "schemaContext"
    THEN \* /@context.*schema\.org/i : both parts, in this order
         \E i, j \in 1..Len(text) : i < j /\ text[i] = "@context" /\ text[j] = "schema.org"
    ELSE \E i \in 1..Len(text) : pattern \in PatternHits(text[i])

\* String.prototype.includes on the lower-cased text
Includes(text, keyword) == \E i \in 1..Len(text) : keyword \in Keywords(text[i])

(***************************************************************************)
(* SEO-critical detector                                                   *)
(***************************************************************************)
SEO_CRITICAL_PATTERNS ==
    << [key |-> "schemaOrg", patterns |-> <<"schemaContext", "schemaType">>,
        name |-> "Structured Data (Schema.org)", seoImpact |-> "high", keepInHead |-> TRUE],
       [key |-> "gtm", patterns |-> <<"gtmStart", "gtmUrl", "gtmId">>,
        name |-> "Google Tag Manager", seoImpact |-> "medium", keepInHead |-> TRUE],
       [key |-> "googleAnalytics",
        patterns |-> <<"gtagConfig", "gaUrl", "gtagUrl", "gaCreate", "gaObject">>,
        name |-> "Google Analytics", seoImpact |-> "medium", keepInHead |-> TRUE],
       [key |-> "facebookPixel", patterns |-> <<"fbqInit", "fbEvents">>,
        name |-> "Facebook Pixel", seoImpact |-> "medium", keepInHead |-> TRUE],
       [key |-> "consentManagement",
        patterns |-> <<"cookieconsent", "onetrust", "cookiebot", "trustarc", "privacymanager">>,
        name |-> "Cookie Consent", seoImpact |-> "critical", keepInHead |-> TRUE],
       [key |-> "jsonLd", patterns |-> <<>>,
        name |-> "JSON-LD Structured Data", seoImpact |-> "high", keepInHead |-> TRUE] >>

\* { type: key, ...config }
SeoResult(config) ==
    [type |-> config.key, name |-> config.name, seoImpact |-> config.seoImpact,
     keepInHead |-> config.keepInHead]

\* SEO_CRITICAL_PATTERNS.jsonLd
jsonLd == SEO_CRITICAL_PATTERNS[Len(SEO_CRITICAL_PATTERNS)]

\* the loop, were the last matching entry to win
FirstMatch_LastWins(k, text) ==
    LET hits == {j \in k..Len(SEO_CRITICAL_PATTERNS) :
                    \E n \in 1..Len(SEO_CRITICAL_PATTERNS[j].patterns) :
                        Test(SEO_CRITICAL_PATTERNS[j].patterns[n], text)}
    IN  IF hits = {} THEN Undefined
        ELSE SeoResult(SEO_CRITICAL_PATTERNS[CHOOSE j \in hits : \A i \in hits : i <= j])

RECURSIVE FirstMatch(_, _)
\* the for..of loop over Object.entries(SEO_CRITICAL_PATTERNS), from entry k on;
\* an entry without patterns is skipped
FirstMatch(k, text) ==
    IF k > Len(SEO_CRITICAL_PATTERNS) THEN Undefined
    ELSE LET config == SEO_CRITICAL_PATTERNS[k]
         IN  IF \E n \in 1..Len(config.patterns) : Test(config.patterns[n], text)
             THEN SeoResult(config)
             ELSE FirstMatch(k + 1, text)

\* the detector, were the type looked at only after the patterns
detectSeoCriticalScript_PatternsFirst(script) ==
    LET contentToCheck == IF script.isInline THEN script.textContent ELSE script.src
        matched        == FirstMatch(1, contentToCheck)
    IN  IF matched # Undefined THEN matched
        ELSE IF script.type = "application/ld+json" THEN SeoResult(jsonLd)
        ELSE Undefined

detectSeoCriticalScript(script) ==
    LET contentToCheck == IF script.isInline THEN script.textContent ELSE script.src
    IN  IF script.type = "application/ld+json"
        THEN SeoResult(jsonLd)
        ELSE FirstMatch(1, contentToCheck)

(***************************************************************************)
(* Category policy table                                                   *)
(***************************************************************************)
Rule(c, s, p) == [criticality |-> c, suggestedStrategy |-> s, suggestedPosition |-> p]

RuleCategories ==
    {"analytics", "ab_testing", "consent", "chat", "fonts", "cdn", "advertising",
     "social", "maps", "video", "payments", "monitoring", "crm", "popups", "email",
     "support", "internal", "other"}

categoryRules ==
    [c \in RuleCategories |->
        CASE c = "analytics"   -> Rule("critical", "async", "head")
          [] c = "ab_testing"  -> Rule("critical", "head-sync", "head")
          [] c = "consent"     -> Rule("critical", "head-sync", "head")
          [] c = "chat"        -> Rule("non-essential", "lazy-load", "body-end")
          [] c = "fonts"       -> Rule("interactive", "preload-or-async", "head")
          [] c = "cdn"         -> Rule("critical", "head-defer", "head")
          [] c = "advertising" -> Rule("interactive", "defer", "body-end")
          [] c = "social"      -> Rule("interactive", "defer", "body-end")
          [] c = "maps"        -> Rule("interactive", "lazy-load", "body-end")
          [] c = "video"       -> Rule("interactive", "lazy-load", "body-end")
          [] c = "payments"    -> Rule("critical", "context-dependent", "body-end")
          [] c = "monitoring"  -> Rule("non-essential", "defer", "body-end")
          [] c = "crm"         -> Rule("non-essential", "lazy-load", "body-end")
          [] c = "popups"      -> Rule("non-essential", "lazy-load", "body-end")
          [] c = "email"       -> Rule("interactive", "defer", "body-end")
          [] c = "support"     -> Rule("non-essential", "lazy-load", "body-end")
          [] c = "internal"    -> Rule("standard", "defer", "context-dependent")
          [] c = "other"       -> Rule("standard", "defer", "body-end")]

(***************************************************************************)
(* Issue predicates                                                        *)
(***************************************************************************)
isInHead(position) == position.location = "head"

\* loading.strategy is always a non-empty string here, so !loading?.strategy is false
hasNoLoadingStrategy(loading) == loading.strategy = "none"

isNonCriticalScript(position, loading, criticality) ==
    \/ isInHead(position) /\ hasNoLoadingStrategy(loading) /\ criticality # "critical"
    \/ isInHead(position) /\ hasNoLoadingStrategy(loading) /\ criticality = "interactive"

needsAnalyticsOptimization(category, loading) ==
    category = "analytics" /\ hasNoLoadingStrategy(loading)

needsChatOptimization(category, loading) ==
    category = "chat" /\ loading.strategy # "lazy"

isNonEssentialBlocking(criticality, position, loading) ==
    criticality = "non-essential" /\ isInHead(position) /\ hasNoLoadingStrategy(loading)

(***************************************************************************)
(* Blocking score                                                          *)
(***************************************************************************)
SizeLarge == 100000

SizeMedium == 50000

positionWeight(location) ==
    CASE location = "head"       -> 5
      [] location = "body-start" -> 3
      [] location = "body-end"   -> 1
      [] OTHER                   -> 0

strategyWeight_DeferAsSync(strategy) ==
    CASE strategy \in {"none", "sync", "defer"} -> 3
      [] OTHER                                  -> 0

strategyWeight(strategy) ==
    CASE strategy \in {"none", "sync"} -> 3
      [] strategy = "defer"            -> 1
      [] OTHER                         -> 0

\* `script.size && script.size.transferSize`: a size object with a non-zero transferSize
sizeWeight(size) ==
    IF Has(size, "transferSize") /\ size.transferSize # 0
    THEN IF size.transferSize > SizeLarge THEN 2
         ELSE IF size.transferSize > SizeMedium THEN 1 ELSE 0
    ELSE 0

calculateBlockingScore_Unclamped(script) ==
    positionWeight(script.position.location)
    + strategyWeight(script.loading.strategy)
    + sizeWeight(script.size)

calculateBlockingScore_AsyncPenalty(script) ==
    LET s == positionWeight(script.position.location)
             + (IF script.loading.strategy = "async" THEN 2
                ELSE strategyWeight(script.loading.strategy))
             + sizeWeight(script.size)
    IN  Min(Max(s, 1), 10)

calculateBlockingScore(script) ==
    LET s == positionWeight(script.position.location)
             + strategyWeight(script.loading.strategy)
             + sizeWeight(script.size)
    IN  Min(Max(s, 1), 10)

(***************************************************************************)
(* Inline script heuristic                                                 *)
(***************************************************************************)
analyzeInlineScript(content) ==
    IF content = <<>> THEN "custom"
    ELSE IF \/ Includes(content, "config")
            \/ Includes(content, "init")
            \/ Includes(content, "setup")
            \/ Includes(content, "window.") /\ Includes(content, "=")
         THEN "critical"
    ELSE IF \/ Includes(content, "addeventlistener")
            \/ Includes(content, "onclick")
            \/ Includes(content, "jquery")
            \/ Includes(content, "$")
         THEN "interactive"
    ELSE IF \/ Includes(content, "track")
            \/ Includes(content, "analytics")
            \/ Includes(content, "gtag")
            \/ Includes(content, "fbq")
         THEN "critical"
    ELSE "custom"

(***************************************************************************)
(* Recommendation engine                                                   *)
(***************************************************************************)
\* const currentlyOptimal = ... of an external SEO-critical script
currentlyOptimal_AsyncOnly(script, seoCritical) ==
    script.loading.strategy = "async"

currentlyOptimal_AnyInHead(script, seoCritical) ==
    \/ script.loading.strategy = "async"
    \/ script.position.location = "head"

currentlyOptimal(script, seoCritical) ==
    \/ script.loading.strategy = "async"
    \/ seoCritical.type = "consentManagement" /\ script.position.location = "head"

seoSuggestedStrategy_AlwaysAsync(seoCritical) == "async"

\* suggestedStrategy of an external SEO-critical script
seoSuggestedStrategy(seoCritical) ==
    IF seoCritical.type = "consentManagement" THEN "keep-sync-in-head" ELSE "async"

\* the inline, SEO-critical return
inlineSeoRecommendation(script, seoCritical) ==
    [criticality       |-> "seo-critical",
     suggestedStrategy |-> "keep-as-is",
     suggestedPosition |-> script.position.location,
     hasIssue          |-> FALSE,
     isSeoCritical     |-> TRUE,
     seoCriticalType   |-> seoCritical.type,
     seoCriticalName   |-> seoCritical.name,
     seoImpact         |-> seoCritical.seoImpact]

\* the two returns for an inline script the detector does not match
inlineRecommendation(script) ==
    LET inlineCriticality == analyzeInlineScript(script.textContent)
    IN  IF inlineCriticality = "critical"
        THEN [criticality       |-> "critical",
              suggestedStrategy |-> "keep-inline",
              suggestedPosition |-> "head",
              hasIssue          |-> FALSE]
        ELSE [criticality       |-> inlineCriticality,
              suggestedStrategy |-> "move-to-end",
              suggestedPosition |-> "body-end",
              hasIssue          |-> (script.position.location = "head")]

\* Rule 1.5: the external, SEO-critical return
seoExternalRecommendation(script, seoCritical) ==
    [criticality       |-> "seo-critical",
     suggestedStrategy |-> seoSuggestedStrategy(seoCritical),
     suggestedPosition |-> "head",
     hasIssue          |-> (/\ ~currentlyOptimal(script, seoCritical)
                            /\ script.loading.strategy = "none"),
     isSeoCritical     |-> TRUE,
     seoCriticalType   |-> seoCritical.type,
     seoCriticalName   |-> seoCritical.name,
     seoImpact         |-> seoCritical.seoImpact,
     currentStrategy   |-> script.loading.strategy,
     currentPosition   |-> script.position.location,
     blockingScore     |-> calculateBlockingScore(script)]

\* Rules 2 to 5: the category policy return
categoryRecommendation(script) ==
    LET category == script.category
        position == script.position
        loading  == script.loading
        rules    == IF category \in RuleCategories THEN categoryRules[category]
                    ELSE categoryRules["other"]
        hasIssue ==
            \/ isNonCriticalScript(position, loading, rules.criticality)
            \/ needsAnalyticsOptimization(category, loading)
            \/ needsChatOptimization(category, loading)
            \/ isNonEssentialBlocking(rules.criticality, position, loading)
            \/ loading.isBlocking
    IN  [criticality       |-> rules.criticality,
         suggestedStrategy |-> rules.suggestedStrategy,
         suggestedPosition |-> rules.suggestedPosition,
         hasIssue          |-> hasIssue,
         currentStrategy   |-> loading.strategy,
         currentPosition   |-> position.location,
         blockingScore     |-> calculateBlockingScore(script)]

generateRecommendation(script) ==
    LET seoCritical == detectSeoCriticalScript(script)
    IN  IF script.isInline
        THEN IF seoCritical # Undefined
             THEN inlineSeoRecommendation(script, seoCritical)
             ELSE inlineRecommendation(script)
        ELSE IF seoCritical # Undefined
             THEN seoExternalRecommendation(script, seoCritical)
             ELSE categoryRecommendation(script)

\* recommendation?.isSeoCritical
IsSeoCritical(s) == Has(s.recommendation, "isSeoCritical") /\ s.recommendation.isSeoCritical

(***************************************************************************)
(* Insight aggregation                                                     *)
(***************************************************************************)
headScriptsSync(scripts) ==
    LET keep(s) == /\ s.position.location = "head"
                   /\ s.loading.strategy = "none"
                   /\ ~s.isInline
                   /\ ~IsSeoCritical(s)
    IN  SelectSeq(scripts, keep)

analyticsNoDefer(scripts) ==
    LET keep(s) == /\ s.category = "analytics"
                   /\ s.loading.strategy = "none"
                   /\ ~IsSeoCritical(s)
    IN  SelectSeq(scripts, keep)

chatWidgetsSync(scripts) ==
    LET keep(s) == /\ s.category = "chat"
                   /\ s.loading.strategy # "lazy"
    IN  SelectSeq(scripts, keep)

\* the seoCriticalScripts.push loop
seoCriticalList(scripts) ==
    LET picked == SelectSeq(scripts, IsSeoCritical)
    IN  [i \in 1..Len(picked) |->
            [name |-> picked[i].recommendation.seoCriticalName,
             type |-> picked[i].recommendation.seoCriticalType]]

SavingsPerScript == 150

DefaultBlockingTime == 100

\* one script's share of totalBlockingTime
blockingTimeOf(s) ==
    IF s.recommendation.hasIssue /\ ~IsSeoCritical(s)
    THEN IF Has(s.size, "transferSize") /\ s.size.transferSize # 0
         THEN s.size.transferSize \div 1000
         ELSE DefaultBlockingTime
    ELSE 0

\* the forEach that accumulates totalBlockingTime
totalBlockingTime_DefaultWhenEmpty(scripts) ==
    IF scripts = <<>> THEN DefaultBlockingTime
    ELSE SumSeq([i \in 1..Len(scripts) |-> blockingTimeOf(scripts[i])])

totalBlockingTime(scripts) ==
    SumSeq([i \in 1..Len(scripts) |-> blockingTimeOf(scripts[i])])

\* potentialSavings before it is capped
potentialSavingsEstimate(scripts) ==
    LET nHead      == Len(headScriptsSync(scripts))
        nAnalytics == Len(analyticsNoDefer(scripts))
        nChat      == Len(chatWidgetsSync(scripts))
        buckets    == nAnalytics * SavingsPerScript + nChat * SavingsPerScript
    IN  IF buckets = 0 /\ nHead > 0 THEN nHead * SavingsPerScript ELSE buckets

cappedSavings_Uncapped(savings, blockingTime) == savings

\* Math.min(potentialSavings, totalBlockingTime)
cappedSavings(savings, blockingTime) == Min(savings, blockingTime)

\* an entry of mainIssues: the count and the wording that follows it
Issue(n, text) == [count |-> n, text |-> text]

generateInsights(scripts) ==
    LET nHead      == Len(headScriptsSync(scripts))
        nAnalytics == Len(analyticsNoDefer(scripts))
        nChat      == Len(chatWidgetsSync(scripts))
        seoCriticalScripts == seoCriticalList(scripts)
        issues ==
            (IF nHead > 0
             THEN <<Issue(nHead, "synchronous scripts in <head> blocking render")>> ELSE <<>>)
            \o (IF nAnalytics > 0
                THEN <<Issue(nAnalytics, "analytics scripts should use async attribute")>> ELSE <<>>)
            \o (IF nChat > 0
                THEN <<Issue(nChat, "chat widgets should be lazy-loaded")>> ELSE <<>>)
        result ==
            [totalBlockingTime  |-> totalBlockingTime(scripts),
             potentialSavings   |-> cappedSavings(potentialSavingsEstimate(scripts),
                                                  totalBlockingTime(scripts)),
             mainIssues         |-> issues,
             issueCount         |-> Len(issues),
             hasNoIssues        |-> (Len(issues) = 0),
             seoCriticalScripts |-> seoCriticalScripts,
             seoCriticalCount   |-> Len(seoCriticalScripts)]
    IN  IF Len(issues) = 0
        THEN IF Len(seoCriticalScripts) > 0
             THEN result @@ [successMessage  |-> "No render-blocking issues found",
                             seoCriticalNote |-> Len(seoCriticalScripts)]
             ELSE result @@ [successMessage  |-> "Excellent! No render-blocking issues detected"]
        ELSE result

(***************************************************************************)
(* Analysis handler: script processing                                     *)
(***************************************************************************)
Locations == {"head", "body-start", "body-middle", "body-end"}

ScriptTypes == {"text/javascript", "module", "application/ld+json"}

\* transferSize values of a resource timing entry, around the score's thresholds
TransferSizes == {0, 1500, SizeMedium, SizeMedium + 1, SizeLarge, SizeLarge + 1}

Timings == {Undefined} \cup {[transferSize |-> n] : n \in TransferSizes}

\* categories matchVendor can return
VendorCategories == (RuleCategories \ {"internal"}) \cup {"third_party"}

ExternalSrcs ==
    { <<"cdn.example.com/app.js">>,
      <<"google-analytics.com/analytics.js">>,
      <<"googletagmanager.com/gtm.js", "GTM-ABC123">>,
      <<"connect.facebook.net/fbevents.js">>,
      <<"consent.cookiebot.com/uc.js">>,
      <<"google-analytics.com/analytics.js", "cookieconsent">> }

InlineTexts ==
    { <<>>,
      <<"console.log()">>,
      <<"window.appState=">>,
      <<"jQuery(ready)">>,
      <<"trackEvent()">>,
      <<"jQuery(ready)", "trackEvent()">>,
      <<"gtag('config'">>,
      <<"gtag('config'", "gtm.start">>,
      <<"@context", "schema.org">> }

\* a script element as page.evaluate reports it (isInline = !script.src)
RawScript(src, textContent, async, defer, type, location) ==
    [src |-> src, isInline |-> (src = <<>>), async |-> async, defer |-> defer,
     type |-> type, location |-> location, textContent |-> textContent]

\* what one iteration of the handler's map reads: the element, the category
\* matchVendor gives its src, and the resource timing found for its src
ExternalInputs ==
    { [script |-> RawScript(src, <<>>, a, d, t, l), category |-> c, timing |-> tm] :
        src \in ExternalSrcs, a \in BOOLEAN, d \in BOOLEAN, t \in ScriptTypes,
        l \in Locations, c \in VendorCategories, tm \in Timings }

InlineInputs ==
    { [script |-> RawScript(<<>>, txt, a, d, t, l), category |-> "internal",
       timing |-> Undefined] :
        txt \in InlineTexts, a \in BOOLEAN, d \in BOOLEAN, t \in ScriptTypes,
        l \in Locations }

AllInputs == ExternalInputs \cup InlineInputs

\* the scripts of the pages analysed as a whole: a source with its vendor category
PageSources ==
    { [src |-> <<"cdn.example.com/app.js">>, category |-> "cdn"],
      [src |-> <<"cdn.segment.com/analytics.min.js">>, category |-> "analytics"],
      [src |-> <<"google-analytics.com/analytics.js">>, category |-> "analytics"],
      [src |-> <<"consent.cookiebot.com/uc.js">>, category |-> "consent"],
      [src |-> <<"widget.intercom.io/widget.js">>, category |-> "chat"],
      [src |-> <<"widget.intercom.io/widget.js", "cookieconsent">>, category |-> "chat"] }

PageInputs ==
    { [script |-> RawScript(ps.src, <<>>, a, FALSE, "text/javascript", l),
       category |-> ps.category, timing |-> tm] :
        ps \in PageSources, a \in BOOLEAN, l \in {"head", "body-end"},
        tm \in {Undefined, [transferSize |-> 0], [transferSize |-> SizeLarge + 1]} }
    \cup
    { [script |-> RawScript(<<>>, txt, FALSE, FALSE, "text/javascript", l),
       category |-> "internal", timing |-> Undefined] :
        txt \in {<<"window.appState=">>, <<"jQuery(ready)">>, <<"gtag('config'">>},
        l \in {"head", "body-end"} }

loadingStrategyOf(script) ==
    IF script.async THEN "async"
    ELSE IF script.defer THEN "defer"
    ELSE IF script.type = "module" THEN "module"
    ELSE "none"

completeScript(in, index) ==
    LET script          == in.script
        loadingStrategy == loadingStrategyOf(script)
    IN  [src         |-> script.src,
         isInline    |-> script.isInline,
         async       |-> script.async,
         defer       |-> script.defer,
         type        |-> script.type,
         position    |-> [location |-> script.location, index |-> index],
         textContent |-> script.textContent,
         category    |-> IF script.src # <<>> THEN in.category ELSE "internal",
         loading     |-> [strategy   |-> loadingStrategy,
                          isBlocking |-> (script.location = "head" /\ loadingStrategy = "none")],
         size        |-> IF script.src # <<>> /\ in.timing # Undefined
                         THEN [transferSize |-> in.timing.transferSize]
                         ELSE Undefined]

\* one iteration of resourceData.scripts.map
processScript(in, index) ==
    LET complete == completeScript(in, index)
    IN  complete @@ [recommendation |-> generateRecommendation(complete)]

ProcessScript(in) ==
    /\ pc = "processing"
    /\ processedScripts' = Append(processedScripts, processScript(in, Len(processedScripts)))
    /\ UNCHANGED <<insights, pc, probe, scores, runVars, libraryVars, prunerVars, apiVars, pageVars>>

\* const insights = generateInsights(processedScripts)
Aggregate ==
    /\ pc = "processing"
    /\ insights' = generateInsights(processedScripts)
    /\ pc' = "done"
    /\ UNCHANGED <<processedScripts, probe, scores, runVars, libraryVars, prunerVars, apiVars, pageVars>>

Init ==
    /\ processedScripts = <<>>
    /\ insights = Undefined
    /\ pc = "processing"
    /\ probe = Undefined
    /\ scores = <<>>
    /\ RunIdle /\ LibraryIdle /\ PrunerIdle /\ ApiIdle /\ PageIdle

(***************************************************************************)
(* Spec: the handler analysing a page of up to MaxScripts scripts          *)
(***************************************************************************)
ProcessPageScript ==
    /\ Len(processedScripts) < MaxScripts
    /\ \E in \in PageInputs : ProcessScript(in)

Next == ProcessPageScript \/ Aggregate

Spec == Init /\ [][Next]_vars

(***************************************************************************)
(* SpecRecommend: the handler's first script, over every input             *)
(***************************************************************************)
ProcessFirstScript ==
    /\ processedScripts = <<>>
    /\ \E in \in AllInputs : ProcessScript(in)

NextRecommend == ProcessFirstScript \/ Aggregate

SpecRecommend == Init /\ [][NextRecommend]_vars

(***************************************************************************)
(* SpecScore: calculateBlockingScore on a resource, then on the same       *)
(* resource with one of its three factors changed                          *)
(***************************************************************************)
ScoreStrategies == {"none", "sync", "async", "defer", "module"}

ScoreInputs ==
    { [position |-> [location |-> l], loading |-> [strategy |-> st], size |-> tm] :
        l \in Locations, st \in ScoreStrategies, tm \in Timings }

Scored(resource) == [resource |-> resource, score |-> calculateBlockingScore(resource)]

InitScore ==
    /\ processedScripts = <<>>
    /\ insights = Undefined
    /\ pc = "scoring"
    /\ probe \in ScoreInputs
    /\ scores = <<>>
    /\ RunIdle /\ LibraryIdle /\ PrunerIdle /\ ApiIdle /\ PageIdle

ScoreProbe ==
    /\ scores = <<>>
    /\ scores' = <<Scored(probe)>>
    /\ UNCHANGED <<processedScripts, insights, pc, probe, runVars, libraryVars, prunerVars, apiVars, pageVars>>

\* score the resource again after one factor changed
Rescore(changed) ==
    /\ Len(scores) = 1
    /\ changed # probe
    /\ probe' = changed
    /\ scores' = Append(scores, Scored(changed))
    /\ UNCHANGED <<processedScripts, insights, pc, runVars, libraryVars, prunerVars, apiVars, pageVars>>

Reposition == \E l \in Locations : Rescore([probe EXCEPT !.position.location = l])

Restrategize == \E st \in ScoreStrategies : Rescore([probe EXCEPT !.loading.strategy = st])

Resize == \E tm \in Timings : Rescore([probe EXCEPT !.size = tm])

NextScore == ScoreProbe \/ Reposition \/ Restrategize \/ Resize

SpecScore == InitScore /\ [][NextScore]_vars

(***************************************************************************)
(* prioritizeScripts                                                       *)
(***************************************************************************)
\* recommendation.blockingScore, <<>> standing for undefined
BlockingScoreOf(s) ==
    IF Has(s.recommendation, "blockingScore") THEN <<s.recommendation.blockingScore>>
    ELSE <<>>

\* a.size?.transferSize || 0
SizeOf(s) == IF Has(s.size, "transferSize") THEN s.size.transferSize ELSE 0

\* the comparator handed to sort.  Where exactly one of the scores is
\* undefined the subtraction gives NaN, which Array.prototype.sort takes as +0
Comparator(a, b) ==
    IF a.recommendation.hasIssue /\ ~b.recommendation.hasIssue THEN -1
    ELSE IF ~a.recommendation.hasIssue /\ b.recommendation.hasIssue THEN 1
    ELSE IF BlockingScoreOf(a) # BlockingScoreOf(b)
         THEN IF BlockingScoreOf(a) = <<>> \/ BlockingScoreOf(b) = <<>> THEN 0
              ELSE BlockingScoreOf(b)[1] - BlockingScoreOf(a)[1]
    ELSE SizeOf(b) - SizeOf(a)

\* the comparator orders these scripts consistently (a strict weak order)
ConsistentOn(scripts) ==
    \A a, b, c \in Range(scripts) :
        /\ (Comparator(a, b) < 0) = (Comparator(b, a) > 0)
        /\ (Comparator(a, b) = 0) = (Comparator(b, a) = 0)
        /\ (Comparator(a, b) = 0 /\ Comparator(b, c) = 0) => Comparator(a, c) = 0
        /\ (Comparator(a, b) < 0 /\ Comparator(b, c) <= 0) => Comparator(a, c) < 0
        /\ (Comparator(a, b) <= 0 /\ Comparator(b, c) < 0) => Comparator(a, c) < 0

OrdersOf(n) == {p \in [1..n -> 1..n] : \A i, j \in 1..n : i # j => p[i] # p[j]}

\* the lists [...scripts].sort(comparator) can return: the stable sort of a
\* copy where the comparator is consistent, else an order the engine chooses
prioritizeScripts(scripts) ==
    LET n      == Len(scripts)
        stable == {p \in OrdersOf(n) :
                     \A i, j \in 1..n : i < j =>
                        \/ Comparator(scripts[p[i]], scripts[p[j]]) < 0
                        \/ (Comparator(scripts[p[i]], scripts[p[j]]) = 0 /\ p[i] < p[j])}
        orders == IF ConsistentOn(scripts) THEN stable ELSE OrdersOf(n)
    IN  {[i \in 1..n |-> scripts[p[i]]] : p \in orders}

(***************************************************************************)
(* SpecRun: one analysis run, from the extraction to the insights, and     *)
(* prioritizeScripts applied to the scripts of the response                *)
(***************************************************************************)
RunInputs ==
    { [script |-> RawScript(<<"cdn.example.com/app.js">>, <<>>, a, FALSE, "text/javascript", l),
       category |-> "cdn", timing |-> tm] :
        a \in BOOLEAN, l \in {"head", "body-end"},
        tm \in {Undefined, [transferSize |-> SizeLarge + 1]} }
    \cup
    { [script |-> RawScript(<<>>, txt, FALSE, FALSE, "text/javascript", "head"),
       category |-> "internal", timing |-> Undefined] :
        txt \in {<<"window.appState=">>, <<"jQuery(ready)">>} }

InitRun ==
    /\ processedScripts = <<>>
    /\ insights = Undefined
    /\ pc = "extracting"
    /\ probe = Undefined
    /\ scores = <<>>
    /\ RunIdle /\ LibraryIdle /\ PrunerIdle /\ ApiIdle /\ PageIdle

\* const resourceData = await page.evaluate(...)
Extract ==
    /\ pc = "extracting"
    /\ \E n \in 0..MaxScripts : \E scripts \in [1..n -> RunInputs] :
          resourceData' = scripts
    /\ pc' = "processing"
    /\ UNCHANGED <<processedScripts, insights, probe, scores, prioritized,
                   libraryVars, prunerVars, apiVars, pageVars>>

\* the next iteration of resourceData.scripts.map
MapNextScript ==
    /\ Len(processedScripts) < Len(resourceData)
    /\ ProcessScript(resourceData[Len(processedScripts) + 1])

\* the aggregation, were it to start before the map has returned
AggregateAfterMap_Early == Aggregate

\* const insights = generateInsights(processedScripts), after the map
AggregateAfterMap ==
    /\ Len(processedScripts) = Len(resourceData)
    /\ Aggregate

\* prioritizeScripts(scripts) on the scripts of the response
Prioritize ==
    /\ pc = "done"
    /\ prioritized = <<>>
    /\ \E sorted \in prioritizeScripts(processedScripts) : prioritized' = <<sorted>>
    /\ UNCHANGED <<processedScripts, insights, pc, probe, scores, resourceData,
                   libraryVars, prunerVars, apiVars, pageVars>>

NextRun == Extract \/ MapNextScript \/ AggregateAfterMap \/ Prioritize

SpecRun == InitRun /\ [][NextRun]_vars

(***************************************************************************)
(* Vendor matcher (src/src/lib/domain-matcher.js)                          *)
(*                                                                         *)
(* A host name is the sequence of its labels ("cdn.example.com" is         *)
(* <<"cdn", "example", "com">>, "a..com" is <<"a", "", "com">>, the empty  *)
(* host name is <<>>) and a path name the sequence of its segments.  The   *)
(* labels and segments drawn below are not parts of one another and no     *)
(* path holds a host name, so that a regular expression built from a table *)
(* key, which matches anywhere in the text, matches exactly when it        *)
(* matches whole labels and segments.                                      *)
(*                                                                         *)
(* src/src/lib/third-party-vendors.json is not part of the sources: the    *)
(* table is an input, a sequence of entries in the order Object.entries    *)
(* visits them (category by category, key by key).                         *)
(***************************************************************************)
\* entries of the vendor table in one run
MaxEntries == 2

\* a function that threw / that returned
Throw(message) == [thrown |-> message]

Return(value) == [value |-> value]

Hostnames ==
    { <<"example", "com">>,
      <<"cdn", "example", "com">>,
      <<"cdn", "example", "com", "evil", "org">>,
      <<"my-lib", "org">>,
      <<"analytics", "my-lib", "org">>,
      <<"a", "", "com">>,
      <<"localhost">>,
      <<>> }

Pathnames == { <<"sdk.js">>, <<"app.js">>, <<"widget.js">> }

\* values passed as the url argument: undefined, a number, and strings: '',
\* '/js/app.js', './app.js', a URL without scheme, an absolute URL
UrlArguments ==
    { [js |-> "undefined"], [js |-> "number"] }
    \cup { [js |-> "string", form |-> f] : f \in {"empty", "rooted", "dotted"} }
    \cup { [js |-> "string", form |-> "schemeless",
            hostname |-> <<"cdn", "example", "com">>, pathname |-> <<"app.js">>] }
    \cup { [js |-> "string", form |-> "absolute", hostname |-> h, pathname |-> p] :
             h \in Hostnames, p \in Pathnames }

\* !url
Falsy(url) == url.js = "undefined" \/ (url.js = "string" /\ url.form = "empty")

\* new URL(url), without a base: only a string with a scheme parses
ParseURL(url) ==
    IF url.form = "absolute"
    THEN Return([hostname |-> url.hostname, pathname |-> url.pathname])
    ELSE Throw("Invalid URL")

\* the words inferCriticality looks for that a label or segment contains
Containing(part) ==
    CASE part = "analytics" -> {"analytics"}
      [] part = "widget.js" -> {"widget"}
      [] OTHER              -> {}

\* url.toLowerCase().includes(word)
UrlIncludes(url, word) ==
    \/ \E i \in 1..Len(url.hostname) : word \in Containing(url.hostname[i])
    \/ \E i \in 1..Len(url.pathname) : word \in Containing(url.pathname[i])

\* keys of the table: "example.com", "*.example.com", "example.com/sdk.js"
Domain(star, host, path) == [star |-> star, host |-> host, path |-> path]

VendorEntries ==
    { [category |-> "cdn", domain |-> Domain(FALSE, <<"example", "com">>, <<>>),
       info |-> [name |-> [literal |-> "Example"], criticality |-> "interactive",
                 loadStrategy |-> "defer"]],
      [category |-> "cdn", domain |-> Domain(FALSE, <<"cdn", "example", "com">>, <<>>),
       info |-> [name |-> [literal |-> "Example CDN"], criticality |-> "critical",
                 loadStrategy |-> "preload"]],
      [category |-> "analytics", domain |-> Domain(TRUE, <<"example", "com">>, <<>>),
       info |-> [name |-> [literal |-> "Example Analytics"], criticality |-> "non-essential",
                 loadStrategy |-> "async"]],
      [category |-> "chat", domain |-> Domain(FALSE, <<"example", "com">>, <<"sdk.js">>),
       info |-> [name |-> [literal |-> "Example Chat SDK"], criticality |-> "non-essential",
                 loadStrategy |-> "lazy"]],
      [category |-> "social", domain |-> Domain(TRUE, <<"example", "com">>, <<"sdk.js">>),
       info |-> [name |-> [literal |-> "Example Social SDK"], criticality |-> "non-essential",
                 loadStrategy |-> "lazy"]] }

\* the tables of up to MaxEntries entries, each key once
Tables ==
    UNION { { t \in [1..n -> VendorEntries] : \A i, j \in 1..n : i # j => t[i] # t[j] } :
              n \in 0..MaxEntries }

IsSuffix(s, t) ==
    Len(s) <= Len(t) /\ SubSeq(t, Len(t) - Len(s) + 1, Len(t)) = s

IsPrefix(s, t) == Len(s) <= Len(t) /\ SubSeq(t, 1, Len(s)) = s

\* new RegExp(domain.replace(/\*/g, '.*').replace(/\./g, '\\.')).test(hostname)
\* for a key "*.host": the second replace escapes the dot of ".*" too, which
\* leaves \.*\.host, matching wherever ".host" occurs in the host name; a key
\* that also has a "/" never matches a host name
WildcardTest(domain, hostname) ==
    /\ domain.path = <<>>
    /\ \E i \in 2..(Len(hostname) - Len(domain.host) + 1) :
          SubSeq(hostname, i, i + Len(domain.host) - 1) = domain.host

\* pathRegex.test(fullPath) for a key "host/path" on hostname + pathname
PathTest(domain, hostname, pathname) ==
    IsSuffix(domain.host, hostname) /\ IsPrefix(domain.path, pathname)

\* hostname === domain || hostname.endsWith('.' + domain)
SubdomainTest(domain, hostname) ==
    \/ hostname = domain.host
    \/ (IsSuffix(domain.host, hostname) /\ Len(hostname) > Len(domain.host))

\* the if / else-if chain applied to one key of the table
EntryMatches(domain, hostname, pathname) ==
    IF domain.star THEN WildcardTest(domain, hostname)
    ELSE IF domain.path # <<>> THEN PathTest(domain, hostname, pathname)
    ELSE SubdomainTest(domain, hostname)

\* { category, ...info }
Policy(entry) ==
    [category |-> entry.category, name |-> entry.info.name,
     criticality |-> entry.info.criticality, loadStrategy |-> entry.info.loadStrategy]

\* the two nested loops, were the last matching key to win
FindVendor_LastWins(k, table, hostname, pathname) ==
    LET hits == {j \in k..Len(table) : EntryMatches(table[j].domain, hostname, pathname)}
    IN  IF hits = {} THEN Undefined
        ELSE Policy(table[CHOOSE j \in hits : \A i \in hits : i <= j])

RECURSIVE FindVendor(_, _, _, _)
\* the two nested loops over the table, from entry k on
FindVendor(k, table, hostname, pathname) ==
    IF k > Len(table) THEN Undefined
    ELSE IF EntryMatches(table[k].domain, hostname, pathname) THEN Policy(table[k])
    ELSE FindVendor(k + 1, table, hostname, pathname)

\* the labels /^(www\d?|cdn|static|assets|js|scripts?|img|images)\./i removes
StrippedPrefixes ==
    {"www", "www1", "cdn", "static", "assets", "js", "script", "scripts", "img", "images"}

\* replace(/[-_]/g, ' '), then each word with its first letter in upper case
TitleCase(label) ==
    CASE label = ""          -> ""
      [] label = "example"   -> "Example"
      [] label = "my-lib"    -> "My Lib"
      [] label = "a"         -> "A"
      [] label = "com"       -> "Com"
      [] label = "org"       -> "Org"
      [] label = "evil"      -> "Evil"
      [] label = "cdn"       -> "Cdn"
      [] label = "analytics" -> "Analytics"
      [] label = "localhost" -> "Localhost"

\* hostname.includes(label + '.')
IncludesLabelDot(hostname, label) ==
    \E i \in 1..Len(hostname) - 1 : hostname[i] = label

\* a name is a text of the code ([literal]), a host name returned as it is
\* ([hostname]) or the formatted label with its descriptor ([words])
extractReadableName(hostname) ==
    IF hostname = <<>> THEN [literal |-> "External Script"]
    ELSE LET parts == IF Len(hostname) >= 2 /\ hostname[1] \in StrippedPrefixes
                      THEN Tail(hostname) ELSE hostname
         IN  IF Len(parts) >= 2
             THEN LET formatted == TitleCase(parts[Len(parts) - 1])
                  IN  IF IncludesLabelDot(hostname, "cdn") THEN [words |-> <<formatted, "CDN">>]
                      ELSE IF IncludesLabelDot(hostname, "api") THEN [words |-> <<formatted, "API">>]
                      ELSE IF IncludesLabelDot(hostname, "analytics")
                           THEN [words |-> <<formatted, "Analytics">>]
                      ELSE [words |-> <<formatted>>]
             ELSE [hostname |-> hostname]

\* the name is the string ''
IsEmptyName(name) == Has(name, "words") /\ name.words = <<"">>

\* position?.location === zone && !loading?.async && !loading?.defer
UnstrategizedAt(zone, position, loading) ==
    /\ Has(position, "location") /\ position.location = zone
    /\ ~(Has(loading, "async") /\ loading.async)
    /\ ~(Has(loading, "defer") /\ loading.defer)

inferCriticality(url, position, loading) ==
    IF UnstrategizedAt("head", position, loading) THEN "critical"
    ELSE IF UrlIncludes(url, "analytics") \/ UrlIncludes(url, "tracking") THEN "non-essential"
    ELSE IF UrlIncludes(url, "chat") \/ UrlIncludes(url, "widget") THEN "non-essential"
    ELSE "interactive"

inferLoadStrategy(position, loading) ==
    IF UnstrategizedAt("head", position, loading) THEN "defer"
    ELSE IF UnstrategizedAt("body", position, loading) THEN "async"
    ELSE "current"

InternalScript ==
    [category |-> "internal", name |-> [literal |-> "Internal Script"],
     criticality |-> "standard", loadStrategy |-> "defer"]

\* typeof window !== 'undefined' && hostname === window.location.hostname
SameOrigin(hostname, window) ==
    window # Undefined /\ hostname = window.location.hostname

\* the body of the try block: what it returns or throws
matchVendorTry(url, position, loading, window, table) ==
    IF Falsy(url) THEN Return(InternalScript)
    ELSE IF url.js # "string" THEN Throw("url.startsWith is not a function")
    ELSE IF url.form \in {"rooted", "dotted"} THEN Return(InternalScript)
    ELSE LET urlObj == ParseURL(url)
         IN  IF Has(urlObj, "thrown") THEN urlObj
             ELSE LET hostname == urlObj.value.hostname
                      found    == FindVendor(1, table, hostname, urlObj.value.pathname)
                  IN  IF found # Undefined THEN Return(found)
                      ELSE IF SameOrigin(hostname, window) THEN Return(InternalScript)
                      ELSE Return([category     |-> "third_party",
                                   name         |-> extractReadableName(hostname),
                                   criticality  |-> inferCriticality(url, position, loading),
                                   loadStrategy |-> inferLoadStrategy(position, loading),
                                   description  |-> [hostname |-> hostname]])

\* try { ... } catch (error) { return { category: 'other', ... } }
matchVendor(url, position, loading, window, table) ==
    LET tried == matchVendorTry(url, position, loading, window, table)
    IN  IF Has(tried, "thrown")
        THEN [category |-> "other", name |-> [literal |-> "External Script"],
              criticality |-> "standard", loadStrategy |-> "defer",
              error |-> tried.thrown]
        ELSE tried.value

(***************************************************************************)
(* generateRecommendation on a resource of any shape                       *)
(***************************************************************************)
\* the object without some of its properties
Without(object, fields) == [f \in DOMAIN object \ fields |-> object[f]]

\* generateRecommendation reads position.location and loading.strategy
\* without `?.`: the inline returns read position.location (lines 511, 540
\* and generateCurrentCode), the external returns read loading.strategy and
\* position.location (lines 550-562, 614-615); detectSeoCriticalScript,
\* the has-issue helpers and calculateBlockingScore read them through `?.`
generateRecommendationTry(script) ==
    IF script.isInline
    THEN IF Has(script, "position") THEN Return(generateRecommendation(script))
         ELSE Throw("TypeError: Cannot read properties of undefined (reading 'location')")
    ELSE IF ~Has(script, "loading")
         THEN Throw("TypeError: Cannot read properties of undefined (reading 'strategy')")
    ELSE IF ~Has(script, "position")
         THEN Throw("TypeError: Cannot read properties of undefined (reading 'location')")
    ELSE Return(generateRecommendation(script))

(***************************************************************************)
(* SpecLibrary: one call of an exported function, on one vendor table      *)
(***************************************************************************)
PositionArguments == {Undefined} \cup {[location |-> l] : l \in Locations \cup {"body"}}

LoadingArguments == {Undefined} \cup {[async |-> a, defer |-> d] : a, d \in BOOLEAN}

\* the global object: none on the server, the page's in a browser
Windows == {Undefined, [location |-> [hostname |-> <<"example", "com">>]]}

\* resources handed to generateRecommendation: the handler's, whole or with
\* position or loading missing
ResourceArguments ==
    { Without(completeScript(in, 0), missing) :
        in \in PageInputs, missing \in SUBSET {"position", "loading"} }

InitLibrary ==
    /\ processedScripts = <<>>
    /\ insights = Undefined
    /\ pc = "library"
    /\ probe = Undefined
    /\ scores = <<>>
    /\ RunIdle /\ PrunerIdle /\ ApiIdle /\ PageIdle
    /\ vendorDatabase \in Tables
    /\ call = Undefined
    /\ returned = Undefined

\* a call matchVendor(url, position, loading) from a browser page or a server
CallMatchVendor ==
    /\ call = Undefined
    /\ \E url \in UrlArguments, position \in PositionArguments,
          loading \in LoadingArguments, window \in Windows :
          /\ call' = [fn |-> "matchVendor", by |-> "caller", url |-> url,
                      position |-> position, loading |-> loading, window |-> window]
          /\ returned' = matchVendor(url, position, loading, window, vendorDatabase)
    /\ UNCHANGED <<processedScripts, insights, pc, probe, scores, vendorDatabase,
                   runVars, prunerVars, apiVars, pageVars>>

\* the handler's call for a script with a src, matchVendor(script.src): the
\* src of a script element is an absolute URL, the route runs on the server
\* (no window), and the page analysed is the request's url
HandlerMatchVendor ==
    /\ call = Undefined
    /\ \E page \in Hostnames \ {<<>>}, url \in UrlArguments :
          /\ url.js = "string" /\ url.form = "absolute"
          /\ call' = [fn |-> "matchVendor", by |-> "handler", page |-> page, url |-> url,
                      position |-> Undefined, loading |-> Undefined, window |-> Undefined]
          /\ returned' = matchVendor(url, Undefined, Undefined, Undefined, vendorDatabase)
    /\ UNCHANGED <<processedScripts, insights, pc, probe, scores, vendorDatabase,
                   runVars, prunerVars, apiVars, pageVars>>

\* a call generateRecommendation(script)
CallGenerateRecommendation ==
    /\ call = Undefined
    /\ \E script \in ResourceArguments :
          /\ call' = [fn |-> "generateRecommendation", by |-> "caller", script |-> script]
          /\ returned' = generateRecommendationTry(script)
    /\ UNCHANGED <<processedScripts, insights, pc, probe, scores, vendorDatabase,
                   runVars, prunerVars, apiVars, pageVars>>

NextLibrary == CallMatchVendor \/ HandlerMatchVendor \/ CallGenerateRecommendation

SpecLibrary == InitLibrary /\ [][NextLibrary]_vars

(***************************************************************************)
(* Above-the-fold pruner (src/unnamed/part_016, captureAboveTheFoldHTML)   *)
(*                                                                         *)
(* The body of a page is a forest of nodes 1..n, numbered so that a parent *)
(* comes before its children and siblings stand in document order; parent  *)
(* 0 is the body itself.  An element has the top of its bounding rectangle *)
(* as the page.evaluate callback measures it; a text or comment node has   *)
(* no children and no rectangle.  A pruned body is the set of the nodes    *)
(* cloned: each clone is appended to the clone of its parent, in order.    *)
(***************************************************************************)
\* nodes below the body of one page
MaxNodes == 3

\* prunes of one page
MaxPrunes == 2

\* viewportHeight: a number of pixels or Infinity
Pixels(n) == [finite |-> TRUE, px |-> n]

Infinity == [finite |-> FALSE, px |-> 0]

Folds == {Pixels(0), Pixels(100), Infinity}

\* rect.top of an element: scrolled or positioned above the viewport, at its
\* top edge, further down
Tops == {-50, 0, 100}

NodeShapes(n) ==
    { [kind |-> "element", top |-> t, parent |-> p] : t \in Tops, p \in 0..(n - 1) }
    \cup { [kind |-> k, parent |-> p] : k \in {"text", "comment"}, p \in 0..(n - 1) }

\* document.body.childNodes and below: only an element has children
Bodies ==
    UNION { { b \in [1..n -> NodeShapes(n)] :
                \A i \in 1..n : /\ b[i].parent < i
                                /\ b[i].parent # 0 => b[b[i].parent].kind = "element" } :
            n \in 0..MaxNodes }

\* document.doctype (null when the page has none), document.head, body
Documents ==
    { [doctype |-> dt, head |-> h, body |-> b] :
        dt \in {"null", "<!DOCTYPE html SYSTEM>"},
        h \in {<<>>, <<"title", "style">>},
        b \in Bodies }

\* element.childNodes
ChildNodes(body, node) == {c \in 1..Len(body) : body[c].parent = node}

\* rect.top >= maxHeight, were an element at the fold to count as above it
BelowTheFold_Strict(top, maxHeight) == maxHeight.finite /\ top > maxHeight.px

\* rect.top >= maxHeight
BelowTheFold(top, maxHeight) == maxHeight.finite /\ top >= maxHeight.px

RECURSIVE CloneVisibleDescendants(_, _, _)
\* cloneAboveTheFold, were it to look below an element that is skipped
CloneVisibleDescendants(body, node, maxHeight) ==
    LET below == UNION { CloneVisibleDescendants(body, c, maxHeight) :
                           c \in ChildNodes(body, node) }
    IN  IF body[node].kind # "element" THEN {node}
        ELSE IF BelowTheFold(body[node].top, maxHeight) THEN below
        ELSE {node} \cup below

RECURSIVE cloneAboveTheFold(_, _, _)
\* the nodes of the clone returned for a node ({} where it returns null)
cloneAboveTheFold(body, node, maxHeight) ==
    IF body[node].kind # "element" THEN {node}
    ELSE IF BelowTheFold(body[node].top, maxHeight) THEN {}
    ELSE {node} \cup UNION { cloneAboveTheFold(body, c, maxHeight) :
                               c \in ChildNodes(body, node) }

\* the page.evaluate callback: bodyClone, doctype, headClone
captureAboveTheFoldHTML(doc, maxHeight) ==
    [doctype |-> IF doc.doctype # "null" THEN doc.doctype ELSE "<!DOCTYPE html>",
     head    |-> doc.head,
     body    |-> UNION { cloneAboveTheFold(doc.body, c, maxHeight) :
                           c \in ChildNodes(doc.body, 0) }]

(***************************************************************************)
(* SpecPrune: one page pruned at up to MaxPrunes fold heights              *)
(***************************************************************************)
InitPrune ==
    /\ processedScripts = <<>>
    /\ insights = Undefined
    /\ pc = "pruning"
    /\ probe = Undefined
    /\ scores = <<>>
    /\ RunIdle /\ LibraryIdle /\ ApiIdle /\ PageIdle
    /\ document \in Documents
    /\ prunes = <<>>

\* captureAboveTheFoldHTML(page, { viewportHeight }) at a fold height not
\* used on this page before
Prune ==
    /\ Len(prunes) < MaxPrunes
    /\ \E maxHeight \in Folds :
          /\ \A i \in 1..Len(prunes) : prunes[i].maxHeight # maxHeight
          /\ prunes' = Append(prunes, [maxHeight |-> maxHeight,
                                       html |-> captureAboveTheFoldHTML(document, maxHeight)])
    /\ UNCHANGED <<processedScripts, insights, pc, probe, scores, document,
                   runVars, libraryVars, apiVars, pageVars>>

NextPrune == Prune

SpecPrune == InitPrune /\ [][NextPrune]_vars

(***************************************************************************)
(* SpecApi: one request to an API route that launches a browser            *)
(*                                                                         *)
(* The routes are analyze-render-blocking, preload-tags and the two        *)
(* versions of fetch-css the repository holds: the one that fetches the    *)
(* stylesheets with Promise.allSettled ("fetch-css") and the one that      *)
(* fetches them one after the other ("fetch-css-sequential").  A step is   *)
(* one stretch of the handler between awaits that can fail; what the       *)
(* browser, the network and the CSS pipeline answer is chosen at the step. *)
(* browser.close() is taken to succeed whenever it is called.              *)
(***************************************************************************)
MaxLinks == 2

Handlers == {"analyze-render-blocking", "fetch-css", "fetch-css-sequential", "preload-tags"}

CssHandlers == {"fetch-css", "fetch-css-sequential"}

VALID_MODES == {"full", "above-fold"}

\* a mode outside VALID_MODES is "print"
Modes == VALID_MODES \cup {"print"}

\* fetch(cssUrl) resolves with response.ok, resolves with a status outside
\* 200..299, or rejects
FetchOutcomes == {"ok", "not-ok", "rejected"}

\* what page.evaluate finds: link i is cssLinks[i], given by what fetching
\* it will answer
LinkLists == UNION {[1..n -> FetchOutcomes] : n \in 0..MaxLinks}

\* req.query: url is whether a url was given
Requests ==
    {[handler |-> h, url |-> u, mode |-> m] :
        h \in Handlers, u \in BOOLEAN, m \in Modes}

\* fetchStylesheet(cssUrl, index) of fetch-css: throws unless response.ok
fetchStylesheet(cssUrl, index) ==
    IF cssLinks[cssUrl] = "rejected" THEN Throw("fetch failed")
    ELSE IF cssLinks[cssUrl] # "ok" THEN Throw("Failed to fetch stylesheet")
    ELSE Return([content |-> cssUrl, metadata |-> [id |-> index + 1, url |-> cssUrl]])

\* Promise.allSettled over the links, the fulfilled values kept in order
RECURSIVE SettledResults(_)
SettledResults(n) ==
    IF n = 0 THEN <<>>
    ELSE LET settled == fetchStylesheet(n, n - 1)
         IN  IF Has(settled, "value")
             THEN Append(SettledResults(n - 1), settled.value)
             ELSE SettledResults(n - 1)

\* the loop of the sequential version over the first n links: a rejected
\* fetch throws, any response that resolves is read and pushed
RECURSIVE SequentialResults(_)
SequentialResults(n) ==
    IF n = 0 THEN Return(<<>>)
    ELSE LET before == SequentialResults(n - 1)
         IN  IF Has(before, "thrown") THEN before
             ELSE IF cssLinks[n] = "rejected" THEN Throw("fetch failed")
             ELSE Return(Append(before.value,
                                [content |-> n,
                                 metadata |-> [id |-> Len(before.value) + 1, url |-> n]]))

Metadata(results) == [i \in 1..Len(results) |-> results[i].metadata]

Content(results) == [i \in 1..Len(results) |-> results[i].content]

\* createEmptyResponse(mode)
createEmptyResponse(mode) ==
    [status |-> 200, unminified |-> <<>>, stylesheets |-> <<>>, mode |-> mode,
     message |-> "No stylesheets found on the page"]

InitApi ==
    /\ processedScripts = <<>>
    /\ insights = Undefined
    /\ pc = "serving"
    /\ probe = Undefined
    /\ scores = <<>>
    /\ RunIdle /\ LibraryIdle /\ PrunerIdle /\ PageIdle
    /\ req \in Requests
    /\ browser = Undefined /\ cssLinks = <<>> /\ stylesheets = <<>>
    /\ error = Undefined /\ res = Undefined
    /\ line = "validate"

ApiOthers == <<processedScripts, insights, pc, probe, scores, runVars, libraryVars,
               prunerVars, pageVars>>

\* the checks before the try: a missing url, and in fetch-css a mode outside
\* VALID_MODES, are answered 400 with a return
Validate ==
    /\ line = "validate"
    /\ IF ~req.url
       THEN res' = [status |-> 400, error |-> "URL is required"] /\ line' = "done"
       ELSE IF req.handler = "fetch-css" /\ req.mode \notin VALID_MODES
       THEN res' = [status |-> 400, error |-> "Invalid mode parameter"] /\ line' = "done"
       ELSE res' = res /\ line' = "launch"
    /\ UNCHANGED <<req, browser, cssLinks, stylesheets, error, ApiOthers>>

\* the launch options and puppeteer.launch: in preload-tags the browser is
\* launched inside createBrowserWithPage and the handler's variable is not
\* assigned before that function returns
Launch ==
    /\ line = "launch"
    /\ \E launched \in BOOLEAN :
          IF launched
          THEN /\ browser' = [open |-> TRUE, closeCalls |-> 0,
                              held |-> req.handler # "preload-tags"]
               /\ line' = "navigate"
               /\ error' = error
          ELSE /\ browser' = browser
               /\ line' = "catch"
               /\ error' = [message |-> "Failed to launch the browser process"]
    /\ UNCHANGED <<req, cssLinks, stylesheets, res, ApiOthers>>

\* newPage, goto, setViewport and the page.evaluate calls, up to the early
\* close: any of them can throw (a navigation timeout)
Navigate ==
    /\ line = "navigate"
    /\ \/ /\ \E links \in LinkLists :
                cssLinks' = IF req.handler \in CssHandlers THEN links ELSE <<>>
          /\ browser' = [browser EXCEPT !.held = TRUE]
          /\ line' = "close"
          /\ error' = error
       \/ /\ cssLinks' = cssLinks
          /\ browser' = browser
          /\ line' = "catch"
          /\ error' = [message |-> "Navigation timeout"]
    /\ UNCHANGED <<req, stylesheets, res, ApiOthers>>

\* await browser.close(); browser = null; and what follows up to the next
\* await: in fetch-css the return for a page without stylesheet links
CloseEarly ==
    /\ line = "close"
    /\ browser' = [open |-> FALSE, closeCalls |-> browser.closeCalls + 1, held |-> FALSE]
    /\ IF req.handler = "fetch-css" /\ Len(cssLinks) = 0
       THEN res' = createEmptyResponse(req.mode) /\ line' = "finally"
       ELSE /\ res' = res
            /\ line' = IF req.handler \in CssHandlers THEN "fetch" ELSE "process"
    /\ UNCHANGED <<req, cssLinks, stylesheets, error, ApiOthers>>

\* the stylesheets fetched: all at once and settled in fetch-css, one after
\* the other in the sequential version
FetchStylesheets ==
    /\ line = "fetch"
    /\ IF req.handler = "fetch-css"
       THEN /\ stylesheets' = SettledResults(Len(cssLinks))
            /\ line' = "process"
            /\ error' = error
       ELSE LET fetched == SequentialResults(Len(cssLinks))
            IN  IF Has(fetched, "thrown")
                THEN /\ stylesheets' = stylesheets
                     /\ line' = "catch"
                     /\ error' = [message |-> fetched.thrown]
                ELSE /\ stylesheets' = fetched.value
                     /\ line' = "process"
                     /\ error' = error
    /\ UNCHANGED <<req, browser, cssLinks, res, ApiOthers>>

\* the rest of the try block: the CSS pipeline (or the analysis, or the
\* tags) and res.status(200).json(...); the pipeline can throw
Process ==
    /\ line = "process"
    /\ \/ /\ res' = IF req.handler \in CssHandlers
                    THEN [status |-> 200, unminified |-> Content(stylesheets),
                          stylesheets |-> Metadata(stylesheets), mode |-> req.mode]
                    ELSE [status |-> 200]
          /\ line' = "finally"
          /\ error' = error
       \/ /\ res' = res
          /\ line' = "catch"
          /\ error' = [message |-> "Processing failed"]
    /\ UNCHANGED <<req, browser, cssLinks, stylesheets, ApiOthers>>

\* catch (error) { res.status(500).json(...) }
Catch ==
    /\ line = "catch"
    /\ res' = [status |-> 500, details |-> error.message]
    /\ line' = "finally"
    /\ UNCHANGED <<req, browser, cssLinks, stylesheets, error, ApiOthers>>

\* finally { if (browser) await browser.close(); }
Finally ==
    /\ line = "finally"
    /\ browser' = IF browser # Undefined /\ browser.held
                  THEN [open |-> FALSE, closeCalls |-> browser.closeCalls + 1,
                        held |-> TRUE]
                  ELSE browser
    /\ line' = "done"
    /\ UNCHANGED <<req, cssLinks, stylesheets, error, res, ApiOthers>>

NextApi ==
    \/ Validate \/ Launch \/ Navigate \/ CloseEarly
    \/ FetchStylesheets \/ Process \/ Catch \/ Finally

SpecApi == InitApi /\ [][NextApi]_vars

\* the handler is an async function the event loop keeps running
SpecApiFair == SpecApi /\ WF_vars(NextApi)

(***************************************************************************)
(* Code templates                                                          *)
(*                                                                         *)
(* A code example is the sequence of the words of its markup that matter   *)
(* to loading: the tag, its async or defer attribute (or the async         *)
(* property a loader sets), followed by the fragments of the source.       *)
(***************************************************************************)
lazyLoadTemplate(src) == <<"<script>", "addEventListener", "appendChild">> \o src

deferTemplate(src) == <<"<script", "defer", "src=">> \o src

asyncTemplate(src) == <<"<script", "async", "src=">> \o src

preloadAsyncTemplate(src) == <<"<link", "preload", "<script", "async", "src=">> \o src

preloadDeferTemplate(src) == <<"<link", "preload", "<script", "defer", "src=">> \o src

gtmOptimizedTemplate == <<"<script>", "addEventListener", "async", "googletagmanager.com/gtm.js">>

gaOptimizedTemplate == <<"<script>", "addEventListener", "async", "googletagmanager.com/gtag/js">>

facebookPixelOptimizedTemplate == <<"<script>", "addEventListener", "async", "connect.facebook.net/fbevents.js">>

inlineOptimizedTemplate(content) == <<"<script>">> \o content

\* script.vendor: the three names selectTemplate knows, and two it does not
Vendors == {"Google Tag Manager", "Google Analytics", "Facebook Pixel", "Cookiebot", "Unknown"}

selectTemplate(script) ==
    IF script.isInline THEN inlineOptimizedTemplate(script.textContent)
    ELSE IF script.vendor = "Google Tag Manager" THEN gtmOptimizedTemplate
    ELSE IF script.vendor = "Google Analytics" THEN gaOptimizedTemplate
    ELSE IF script.vendor = "Facebook Pixel" THEN facebookPixelOptimizedTemplate
    ELSE CASE script.recommendation.suggestedStrategy = "lazy-load" -> lazyLoadTemplate(script.src)
           [] script.recommendation.suggestedStrategy = "defer" -> deferTemplate(script.src)
           [] script.recommendation.suggestedStrategy = "async" -> asyncTemplate(script.src)
           [] script.recommendation.suggestedStrategy = "head-defer" -> deferTemplate(script.src)
           [] script.recommendation.suggestedStrategy = "preload-or-async" -> preloadAsyncTemplate(script.src)
           [] script.recommendation.suggestedStrategy = "preload" -> preloadDeferTemplate(script.src)
           [] OTHER -> <<"<script", "src=">> \o script.src

\* the codeExample of the recommendation for an external SEO-critical script
\* that matchVendor named vendor
seoCodeExample(script, vendor) ==
    selectTemplate([vendor |-> vendor, src |-> script.src, isInline |-> script.isInline,
                    textContent |-> script.textContent,
                    recommendation |-> [suggestedStrategy |-> "async",
                                        suggestedPosition |-> "head"]])

(***************************************************************************)
(* SpecPage: the render-blocking page                                      *)
(*                                                                         *)
(* handleSubmit is the list of its calls that have not returned, each at   *)
(* the await it is suspended on.  The state updates a call makes between   *)
(* two awaits are one step: no event is handled in between.                *)
(***************************************************************************)
MaxSubmits == 3

Urls == {"https://a.example", "https://b.example", "https://c.example"}

\* the body of a 200 response for a url
AnalysisData(u) == {[url |-> u, issueCount |-> n] : n \in 0..1}

\* errorData.details || errorData.error || 'Failed to analyze page'
ErrorMessage(errorData) ==
    IF Has(errorData, "details") /\ errorData.details # "" THEN errorData.details
    ELSE IF Has(errorData, "error") /\ errorData.error # "" THEN errorData.error
    ELSE "Failed to analyze page"

\* the bodies of the 400 and 500 responses, and a body without either field
ErrorBodies ==
    { [error |-> "URL is required"],
      [error |-> "Page load timeout", details |-> "The page took too long to load"],
      [error |-> "Failed to analyze page", details |-> ""],
      [other |-> ""] }

\* FormInput: disabled={loading} on the input and on the submit button
FormEnabled_Always(loading) == TRUE

FormEnabled(loading) == ~loading

\* the catch and finally blocks
Fail(message) ==
    /\ pageError' = [message |-> message]
    /\ pageLoading' = FALSE
    /\ pageResults' = pageResults

PageOthers == <<processedScripts, insights, pc, probe, scores, runVars, libraryVars,
                prunerVars, apiVars>>

InitPage ==
    /\ processedScripts = <<>>
    /\ insights = Undefined
    /\ pc = "page"
    /\ probe = Undefined
    /\ scores = <<>>
    /\ RunIdle /\ LibraryIdle /\ PrunerIdle /\ ApiIdle /\ PageIdle

\* handleUrlChange, on an input that is not disabled
ChangeUrl ==
    /\ FormEnabled(pageLoading)
    /\ \E u \in Urls \cup {""} : u # pageUrl /\ pageUrl' = u
    /\ UNCHANGED <<pageLoading, pageResults, pageError, handleSubmit, submits, PageOthers>>

\* the form is submitted (the url is required, a disabled form does not
\* submit): handleSubmit runs up to its await fetch(...)
Submit ==
    /\ FormEnabled(pageLoading)
    /\ pageUrl # ""
    /\ submits < MaxSubmits
    /\ pageLoading' = TRUE
    /\ pageError' = Undefined
    /\ pageResults' = Undefined
    /\ handleSubmit' = Append(handleSubmit, [at |-> "fetch", url |-> pageUrl])
    /\ submits' = submits + 1
    /\ UNCHANGED <<pageUrl, PageOthers>>

Remaining(i) == [j \in 1..(Len(handleSubmit) - 1) |->
                    IF j < i THEN handleSubmit[j] ELSE handleSubmit[j + 1]]

\* fetch settles: it resolves with response.ok or without, or it rejects and
\* the call runs its catch and finally blocks and returns
FetchSettles ==
    \E i \in 1..Len(handleSubmit) :
        /\ handleSubmit[i].at = "fetch"
        /\ \/ /\ \E ok \in BOOLEAN :
                    handleSubmit' = [handleSubmit EXCEPT
                                        ![i].at = IF ok THEN "json" ELSE "error json"]
              /\ UNCHANGED <<pageLoading, pageResults, pageError>>
           \/ /\ Fail("Failed to fetch")
              /\ handleSubmit' = Remaining(i)
        /\ UNCHANGED <<pageUrl, submits, PageOthers>>

\* response.json() settles: the results are set, or the error the body
\* describes is thrown and caught, or the body does not parse; then finally
JsonSettles ==
    \E i \in 1..Len(handleSubmit) :
        /\ handleSubmit[i].at \in {"json", "error json"}
        /\ \/ /\ handleSubmit[i].at = "json"
              /\ \E data \in AnalysisData(handleSubmit[i].url) : pageResults' = data
              /\ pageLoading' = FALSE
              /\ pageError' = pageError
           \/ /\ handleSubmit[i].at = "error json"
              /\ \E errorData \in ErrorBodies : Fail(ErrorMessage(errorData))
           \/ Fail("Unexpected token in JSON")
        /\ handleSubmit' = Remaining(i)
        /\ UNCHANGED <<pageUrl, submits, PageOthers>>

\* the Try Again button under the error message
DismissError ==
    /\ pageError # Undefined
    /\ pageError' = Undefined
    /\ UNCHANGED <<pageUrl, pageLoading, pageResults, handleSubmit, submits, PageOthers>>

NextPage == ChangeUrl \/ Submit \/ FetchSettles \/ JsonSettles \/ DismissError

SpecPage == InitPage /\ [][NextPage]_vars

\* a fetch and the reading of its body settle: the API route always answers
SpecPageFair == SpecPage /\ WF_vars(FetchSettles) /\ WF_vars(JsonSettles)

(***************************************************************************)
(* Properties                                                              *)
(***************************************************************************)
Processed == {processedScripts[i] : i \in 1..Len(processedScripts)}


\* an external script the SEO detector matches
SeoExternal(s) == ~s.isInline /\ detectSeoCriticalScript(s) # Undefined

\* C1: once the insights are computed, no processed script whose
\* recommendation is SEO-critical sits in the head-synchronous, the
\* analytics-without-async or the chat-without-lazy bucket, whatever its
\* category, so the issues, the issue count and the savings are those of the
\* page without its SEO-critical scripts.
C1_SeoCriticalInNoBucket ==
    pc = "done" =>
        LET others == SelectSeq(processedScripts, LAMBDA s : ~IsSeoCritical(s))
        IN  /\ \A s \in Processed :
                IsSeoCritical(s) =>
                    /\ s \notin Range(headScriptsSync(processedScripts))
                    /\ s \notin Range(analyticsNoDefer(processedScripts))
                    /\ s \notin Range(chatWidgetsSync(processedScripts))
            /\ insights.mainIssues = generateInsights(others).mainIssues
            /\ insights.issueCount = generateInsights(others).issueCount
            /\ insights.potentialSavings = generateInsights(others).potentialSavings

\* C2 (as claimed): an external script the SEO detector matches has hasIssue
\* true exactly when its loading strategy is none, wherever it sits.
C2_IssueIffUnstrategized ==
    \A s \in Processed :
        SeoExternal(s) => (s.recommendation.hasIssue <=> s.loading.strategy = "none")

\* C2 (amended): an external script the SEO detector matches has hasIssue true
\* exactly when its loading strategy is none and it is not a consent-management
\* script located in head.
C2_IssueIffUnstrategizedUnlessConsentInHead ==
    \A s \in Processed :
        SeoExternal(s) =>
            (s.recommendation.hasIssue <=>
                /\ s.loading.strategy = "none"
                /\ ~(/\ s.recommendation.seoCriticalType = "consentManagement"
                     /\ s.position.location = "head"))

C2_Witness ==
    \E s \in Processed :
        /\ SeoExternal(s)
        /\ s.recommendation.seoCriticalType = "consentManagement"
        /\ s.position.location = "head"
        /\ s.loading.strategy = "none"
        /\ ~s.recommendation.hasIssue

\* C3: an external script detected as consent-management is told
\* keep-sync-in-head in head at every position and loading strategy; an
\* external script of any other SEO-critical category is told async in head.
C3_ConsentKeepsSyncInHead ==
    \A s \in Processed :
        SeoExternal(s) =>
            /\ s.recommendation.suggestedPosition = "head"
            /\ s.recommendation.suggestedStrategy =
                   IF detectSeoCriticalScript(s).type = "consentManagement"
                   THEN "keep-sync-in-head" ELSE "async"

C3_Witness ==
    \E s \in Processed :
        /\ SeoExternal(s)
        /\ detectSeoCriticalScript(s).type = "consentManagement"
        /\ s.position.location = "body-end"
        /\ s.loading.strategy = "defer"
        /\ s.recommendation.suggestedStrategy = "keep-sync-in-head"

\* C4: the insights of every page have
\* 0 <= potentialSavings <= totalBlockingTime.
C4_SavingsCappedByBlockingTime ==
    pc = "done" =>
        /\ insights.potentialSavings >= 0
        /\ insights.totalBlockingTime >= 0
        /\ insights.potentialSavings <= insights.totalBlockingTime

\* a page mixing an SEO-critical and an inline script whose estimate exceeds
\* its blocking time
C4_Witness ==
    /\ pc = "done"
    /\ potentialSavingsEstimate(processedScripts) > insights.totalBlockingTime
    /\ \E s \in Processed : IsSeoCritical(s)
    /\ \E s \in Processed : s.isInline
    /\ insights.potentialSavings = insights.totalBlockingTime

\* C5: every recommendation carries a blockingScore, whichever branch of
\* generateRecommendation returned it.
C5_EveryRecommendationHasScore ==
    \A s \in Processed : Has(s.recommendation, "blockingScore")

\* C6: calculateBlockingScore returns an integer from 1 to 10 for every zone,
\* loading strategy and transfer size.
C6_ScoreBetween1And10 ==
    \A i \in 1..Len(scores) : scores[i].score \in 1..10

\* the weights add up to 0 and the score is 1
C6_Witness ==
    \E i \in 1..Len(scores) :
        /\ scores[i].score = 1
        /\ scores[i].resource.position.location = "body-middle"
        /\ scores[i].resource.loading.strategy = "async"
        /\ scores[i].resource.size = Undefined

\* the second scoring differs from the first in the named factor only
OnlyChanged(factor) ==
    /\ Len(scores) = 2
    /\ \A f \in {"position", "loading", "size"} \ {factor} :
           scores[1].resource[f] = scores[2].resource[f]

StrategyRank(st) == CASE st = "none" -> 2 [] st = "defer" -> 1 [] st = "async" -> 0

\* C7: with the other two factors fixed, head never scores lower than another
\* zone, none never lower than defer and defer never lower than async, and a
\* larger transfer size never lower than a smaller one.
C7_ScoreMonotonic ==
    /\ (OnlyChanged("position") /\ scores[2].resource.position.location = "head")
           => scores[2].score >= scores[1].score
    /\ (/\ OnlyChanged("loading")
        /\ scores[1].resource.loading.strategy \in {"none", "defer", "async"}
        /\ scores[2].resource.loading.strategy \in {"none", "defer", "async"}
        /\ StrategyRank(scores[2].resource.loading.strategy)
               >= StrategyRank(scores[1].resource.loading.strategy))
           => scores[2].score >= scores[1].score
    /\ (/\ OnlyChanged("size")
        /\ scores[1].resource.size # Undefined
        /\ scores[2].resource.size # Undefined
        /\ scores[2].resource.size.transferSize >= scores[1].resource.size.transferSize)
           => scores[2].score >= scores[1].score

C7_Witness ==
    /\ OnlyChanged("loading")
    /\ scores[1].resource.loading.strategy = "async"
    /\ scores[2].resource.loading.strategy = "defer"
    /\ scores[2].score > scores[1].score

\* an external cdn script the detector does not match, in body-end with defer
CdnDeferredAtEnd(s) ==
    /\ ~s.isInline
    /\ detectSeoCriticalScript(s) = Undefined
    /\ s.category = "cdn"
    /\ s.position.location = "body-end"
    /\ s.loading.strategy = "defer"

\* C8 (as claimed): an external, non-SEO-critical cdn script in body-end with
\* defer has hasIssue false and a blockingScore of at most 2, whatever its size.
C8_DeferredCdnScoresAtMost2 ==
    \A s \in Processed :
        CdnDeferredAtEnd(s) =>
            ~s.recommendation.hasIssue /\ s.recommendation.blockingScore <= 2

\* C8 (amended): such a script has hasIssue false and a blockingScore of at
\* most 4; the score is at most 2 when its transfer size is unknown or at most
\* 50000 bytes.
C8_DeferredCdnScoresAtMost4 ==
    \A s \in Processed :
        CdnDeferredAtEnd(s) =>
            /\ ~s.recommendation.hasIssue
            /\ s.recommendation.blockingScore <= 4
            /\ (s.size = Undefined \/ s.size.transferSize <= SizeMedium)
                   => s.recommendation.blockingScore <= 2

C8_Witness ==
    \E s \in Processed :
        /\ CdnDeferredAtEnd(s)
        /\ s.size # Undefined
        /\ s.size.transferSize > SizeLarge
        /\ s.recommendation.blockingScore = 4
        /\ ~s.recommendation.hasIssue

\* an external analytics script whose URL matches
\* /google-analytics\.com\/analytics/, in head without a loading strategy
BlockingGoogleAnalytics(s) ==
    /\ ~s.isInline
    /\ Test("gaUrl", s.src)
    /\ s.category = "analytics"
    /\ s.position.location = "head"
    /\ s.loading.strategy = "none"

\* C9: such a script has hasIssue true and a blockingScore of at least 8, for
\* every transfer size.
C9_BlockingAnalyticsFlagged ==
    \A s \in Processed :
        BlockingGoogleAnalytics(s) =>
            s.recommendation.hasIssue /\ s.recommendation.blockingScore >= 8

C9_Witness ==
    \E s \in Processed :
        /\ BlockingGoogleAnalytics(s)
        /\ s.size = Undefined
        /\ s.recommendation.seoCriticalType = "googleAnalytics"
        /\ s.recommendation.hasIssue
        /\ s.recommendation.blockingScore = 8

\* C10: the insights of a page without scripts are well formed: no issue, no
\* SEO-critical script, no blocking time and no savings.
C10_EmptyPageInsights ==
    (pc = "done" /\ processedScripts = <<>>) =>
        /\ insights.issueCount = 0
        /\ insights.hasNoIssues
        /\ insights.seoCriticalCount = 0
        /\ insights.mainIssues = <<>>
        /\ insights.seoCriticalScripts = <<>>
        /\ insights.totalBlockingTime = 0
        /\ insights.potentialSavings = 0

C10_Witness ==
    /\ pc = "done"
    /\ processedScripts = <<>>
    /\ Has(insights, "successMessage")

\* the text detectSeoCriticalScript scans
ContentToCheck(s) == IF s.isInline THEN s.textContent ELSE s.src

\* the categories in the order the detection contract lists them
CanonicalOrder ==
    <<"schemaOrg", "gtm", "googleAnalytics", "facebookPixel", "consentManagement">>

\* some regular expression of the category matches the text
CategoryMatches(key, text) ==
    \E c \in Range(SEO_CRITICAL_PATTERNS) :
        c.key = key /\ \E p \in Range(c.patterns) : Test(p, text)

MatchingCategories(text) ==
    {k \in 1..Len(CanonicalOrder) : CategoryMatches(CanonicalOrder[k], text)}

\* C11: for a script that is not typed application/ld+json and whose scanned
\* text matches patterns of one or more categories, the category reported is
\* the matching one that comes first in the order schemaOrg, gtm,
\* googleAnalytics, facebookPixel, consentManagement, wherever in the text the
\* matches lie; detecting again on the same script gives the same category.
C11_EarliestCategoryWins ==
    \A s \in Processed :
        LET matching == MatchingCategories(ContentToCheck(s))
        IN  (s.type # "application/ld+json" /\ matching # {}) =>
                /\ Has(s.recommendation, "seoCriticalType")
                /\ \E k \in matching :
                      /\ \A j \in matching : k <= j
                      /\ s.recommendation.seoCriticalType = CanonicalOrder[k]
                /\ detectSeoCriticalScript(s).type = s.recommendation.seoCriticalType

\* a text whose first match belongs to the later category (googleAnalytics),
\* reported as the earlier one (gtm)
C11_Witness ==
    \E s \in Processed :
        /\ s.type # "application/ld+json"
        /\ s.isInline
        /\ s.textContent = <<"gtag('config'", "gtm.start">>
        /\ Cardinality(MatchingCategories(s.textContent)) = 2
        /\ s.recommendation.seoCriticalType = "gtm"

\* C12: a script typed application/ld+json is reported as the JSON-LD policy,
\* inline or external and whatever its text or URL matches; a script of
\* another type whose scanned text matches no pattern is reported as not
\* SEO-critical (null).
C12_JsonLdTypeWins ==
    \A s \in Processed :
        /\ s.type = "application/ld+json" =>
              /\ detectSeoCriticalScript(s) = SeoResult(jsonLd)
              /\ IsSeoCritical(s)
              /\ s.recommendation.seoCriticalType = "jsonLd"
              /\ s.recommendation.seoCriticalName = "JSON-LD Structured Data"
        /\ (s.type # "application/ld+json" /\ MatchingCategories(ContentToCheck(s)) = {}) =>
              /\ detectSeoCriticalScript(s) = Undefined
              /\ ~IsSeoCritical(s)

\* an external script typed application/ld+json whose URL matches the
\* googleAnalytics and the consentManagement patterns, reported as JSON-LD
C12_Witness ==
    \E s \in Processed :
        /\ s.type = "application/ld+json"
        /\ ~s.isInline
        /\ MatchingCategories(s.src) = {3, 5}
        /\ s.recommendation.seoCriticalType = "jsonLd"

\* a call of matchVendor with an absolute URL has returned
MatchedAbsolute ==
    /\ call # Undefined
    /\ call.fn = "matchVendor"
    /\ call.url.js = "string"
    /\ call.url.form = "absolute"

\* the entries of the table whose key the URL of the call satisfies
MatchingEntries ==
    {k \in 1..Len(vendorDatabase) :
        EntryMatches(vendorDatabase[k].domain, call.url.hostname, call.url.pathname)}

\* the clause an entry matches by: 1 exact or wildcard host name, 2 path
\* pattern, 3 subdomain
KindOfMatch(k) ==
    LET domain == vendorDatabase[k].domain
    IN  IF domain.star THEN 1
        ELSE IF domain.path # <<>> THEN 2
        ELSE IF call.url.hostname = domain.host THEN 1
        ELSE 3

\* C13 (as claimed): when the URL satisfies entries of the table, the policy
\* returned is that of an entry of the earliest kind among them (exact or
\* wildcard, then path pattern, then subdomain), wherever the entries sit.
C13_EarliestKindWins ==
    (MatchedAbsolute /\ MatchingEntries # {}) =>
        \E k \in MatchingEntries :
            /\ \A j \in MatchingEntries : KindOfMatch(k) <= KindOfMatch(j)
            /\ returned = Policy(vendorDatabase[k])

\* C13 (amended): the policy returned is that of the entry earliest in the
\* table among those the URL satisfies, of whatever kind; when it satisfies
\* none the result comes from the fallbacks (internal or third_party).
C13_FirstEntryWins ==
    MatchedAbsolute =>
        IF MatchingEntries = {}
        THEN returned.category \in {"internal", "third_party"}
        ELSE \E k \in MatchingEntries :
                /\ \A j \in MatchingEntries : k <= j
                /\ returned = Policy(vendorDatabase[k])

\* two entries of different kinds match and the one of the later kind, which
\* comes first in the table, is returned
C13_Witness ==
    /\ MatchedAbsolute
    /\ \E j, k \in MatchingEntries :
          /\ j < k
          /\ KindOfMatch(j) > KindOfMatch(k)
          /\ returned = Policy(vendorDatabase[j])

\* C14: in a call made by the handler, an absolute URL that satisfies no
\* entry of the table and whose host name is that of the analysed page is
\* given category internal and criticality standard.
C14_HandlerSameOriginInternal ==
    (/\ MatchedAbsolute
     /\ call.by = "handler"
     /\ MatchingEntries = {}
     /\ call.url.hostname = call.page) =>
        /\ returned.category = "internal"
        /\ returned.criticality = "standard"

\* neither async nor defer is set on the loading argument
NoStrategySet(loading) ==
    /\ ~(Has(loading, "async") /\ loading.async)
    /\ ~(Has(loading, "defer") /\ loading.defer)

\* C15: for a URL classified third_party the loadStrategy is defer for a
\* script in head with no strategy set, async for a script in the body
\* (body, body-start, body-middle or body-end) with no strategy set, and
\* current in every other case.
C15_LoadStrategyFromPosition ==
    (/\ call # Undefined
     /\ call.fn = "matchVendor"
     /\ returned.category = "third_party") =>
        returned.loadStrategy =
            IF Has(call.position, "location") /\ NoStrategySet(call.loading)
            THEN CASE call.position.location = "head" -> "defer"
                   [] call.position.location \in
                        {"body", "body-start", "body-middle", "body-end"} -> "async"
                   [] OTHER -> "current"
            ELSE "current"

\* C16: every call of matchVendor returns a policy with category, name,
\* criticality and loadStrategy; a string that does not parse as a URL gives
\* other / "External Script" / standard / defer with the error attached; an
\* absolute URL that satisfies no entry (and is not same-origin) gives
\* third_party with a name that is not the empty string.
C16_AlwaysACompletePolicy ==
    (call # Undefined /\ call.fn = "matchVendor") =>
        /\ {"category", "name", "criticality", "loadStrategy"} \subseteq DOMAIN returned
        /\ ~IsEmptyName(returned.name)
        /\ (call.url.js = "string" /\ call.url.form = "schemeless") =>
              /\ returned.category = "other"
              /\ returned.name = [literal |-> "External Script"]
              /\ returned.criticality = "standard"
              /\ returned.loadStrategy = "defer"
              /\ Has(returned, "error")
        /\ (/\ MatchedAbsolute
            /\ MatchingEntries = {}
            /\ ~SameOrigin(call.url.hostname, call.window)) =>
              returned.category = "third_party"

\* C17: generateRecommendation returns for every resource, and for one that
\* lacks position or loading it returns the generic recommendation
\* (criticality standard, suggested strategy defer).
C17_MalformedResourceDegrades ==
    (call # Undefined /\ call.fn = "generateRecommendation") =>
        /\ ~Has(returned, "thrown")
        /\ ~({"position", "loading"} \subseteq DOMAIN call.script) =>
              /\ returned.value.criticality = "standard"
              /\ returned.value.suggestedStrategy = "defer"

\* once the insights exist every extracted script has been processed, in
\* order, and carries its recommendation
InsightsAfterEveryScript ==
    insights # Undefined =>
        /\ Len(processedScripts) = Len(resourceData)
        /\ \A i \in 1..Len(resourceData) :
              /\ Has(processedScripts[i], "recommendation")
              /\ processedScripts[i] = processScript(resourceData[i], i - 1)

\* a step leaves every processed script (its recommendation included) and the
\* extracted list as they are, and adds no script once the insights exist
ResourcesLeftAlone ==
    /\ \A i \in 1..Len(processedScripts) :
          i <= Len(processedScripts') /\ processedScripts'[i] = processedScripts[i]
    /\ pc # "extracting" => resourceData' = resourceData
    /\ insights # Undefined => processedScripts' = processedScripts

\* C18: in a run generateInsights is invoked only after every extracted
\* script has its recommendation attached; a script's recommendation, once
\* written, is never written again; and neither generateInsights nor
\* prioritizeScripts changes a resource or the list it is given.
C18_BarrierThenReadOnly ==
    [] InsightsAfterEveryScript /\ [][ResourcesLeftAlone]_vars

\* a run of two or more scripts whose insights exist and which
\* prioritizeScripts returned in an order other than the list's
C18_Witness ==
    /\ Len(resourceData) >= 2
    /\ insights # Undefined
    /\ prioritized # <<>>
    /\ prioritized[1] # processedScripts
    /\ Range(prioritized[1]) = Range(processedScripts)

\* the prunes made of the page
Pruned == Range(prunes)

\* every node below the body
WholeBody == 1..Len(document.body)

RECURSIVE AncestorsAndSelf(_, _)
\* a node and its ancestors below the body
AncestorsAndSelf(body, node) ==
    IF node = 0 THEN {} ELSE {node} \cup AncestorsAndSelf(body, body[node].parent)

\* a top offset strictly less than the fold height
StrictlyAbove(top, h) == ~h.finite \/ top < h.px

\* h1 < h2
LowerFold(h1, h2) == h1.finite /\ (~h2.finite \/ h1.px < h2.px)

ElementsOf(nodes) == {i \in nodes : document.body[i].kind = "element"}

PlainInline(s) == s.isInline /\ detectSeoCriticalScript(s) = Undefined

\* the content holds a tracking or analytics call
HasTrackingCall(content) ==
    \E word \in {"track", "analytics", "gtag", "fbq"} : Includes(content, word)

\* C21: an inline script that is not SEO-critical and whose content holds a
\* tracking or analytics call (track, analytics, gtag, fbq) is classified
\* critical and told keep-inline with hasIssue false, whatever else the
\* content holds; and an inline script told move-to-end is not classified
\* critical, is sent to body-end and has hasIssue exactly when it is in head.
C21_TrackingInlineIsCritical ==
    \A s \in Processed :
        PlainInline(s) =>
            /\ HasTrackingCall(s.textContent) =>
                  /\ s.recommendation.criticality = "critical"
                  /\ s.recommendation.suggestedStrategy = "keep-inline"
                  /\ s.recommendation.hasIssue = FALSE
            /\ s.recommendation.suggestedStrategy \in {"keep-inline", "move-to-end"}
            /\ s.recommendation.suggestedStrategy = "move-to-end" =>
                  /\ s.recommendation.criticality # "critical"
                  /\ s.recommendation.suggestedPosition = "body-end"
                  /\ s.recommendation.hasIssue = (s.position.location = "head")

\* what a resource adds to the blocking time as the contract states it
ClaimedBlockingTime(s) ==
    IF s.recommendation.hasIssue /\ ~IsSeoCritical(s)
    THEN IF s.size # Undefined THEN s.size.transferSize \div 1000 ELSE 100
    ELSE 0

\* C22: totalBlockingTime is the sum, over the resources that have an issue
\* and are not SEO-critical, of floor(transferSize / 1000) where the size is
\* known (a known size of 0 included) and of 100 where it is unknown.
C22_BlockingTimeSum ==
    insights # Undefined =>
        insights.totalBlockingTime =
            SumSeq([i \in 1..Len(processedScripts) |->
                        ClaimedBlockingTime(processedScripts[i])])

\* the links whose fetch answered with response.ok
FetchedSuccessfully == {i \in 1..Len(cssLinks) : cssLinks[i] = "ok"}

\* a stylesheet could not be fetched, and nothing else went wrong on the way
FetchFailed == \E i \in 1..Len(cssLinks) : cssLinks[i] # "ok"

\* C23: in the CSS extraction handler a stylesheet that cannot be fetched
\* never fails the request: no response is the 500 of a failed fetch, a 200
\* response lists exactly the stylesheets fetched successfully, in the order
\* of the page, and combines their contents, and a page without stylesheet
\* links is answered 200 with empty CSS and a message.
C23_StylesheetFailureIsolated ==
    (req # Undefined /\ req.handler \in CssHandlers /\ res # Undefined) =>
        /\ res.status = 500 => res.details # "fetch failed"
        /\ res.status = 200 =>
              /\ {res.stylesheets[i].url : i \in 1..Len(res.stylesheets)} = FetchedSuccessfully
              /\ Range(res.unminified) = FetchedSuccessfully
              /\ \A i, j \in 1..Len(res.stylesheets) :
                    i < j => res.stylesheets[i].url < res.stylesheets[j].url
        /\ (res.status = 200 /\ Len(cssLinks) = 0) =>
              /\ res.unminified = <<>>
              /\ Has(res, "message")

Launched == browser # Undefined

Closed == browser # Undefined /\ ~browser.open

Responded(status) == res # Undefined /\ res.status = status

\* C30: in every API handler that launches a browser, once the browser has
\* been launched it is eventually closed, whatever path the handler takes; a
\* handler that has answered 200 has called close exactly once; and a request
\* answered 400 has launched no browser.
C30_BrowserAlwaysClosed ==
    /\ [](Launched => <>Closed)
    /\ []((line = "done" /\ Responded(200)) => browser.closeCalls = 1)
    /\ [](Responded(400) => ~Launched)

\* C24: when the insights say hasNoIssues, no resource that is not
\* SEO-critical carries hasIssue, and so totalBlockingTime is 0; this holds
\* in particular when inline non-critical scripts sit in the head.
C24_NoIssuesMeansNothingFlagged ==
    (insights # Undefined /\ insights.hasNoIssues) =>
        /\ \A i \in 1..Len(processedScripts) :
              ~IsSeoCritical(processedScripts[i]) =>
                  ~processedScripts[i].recommendation.hasIssue
        /\ insights.totalBlockingTime = 0

\* an external script the SEO detector does not claim, sitting where its
\* category's head-sync policy wants it: in the head, with no async or defer
InHeadSyncState(s) ==
    /\ ~s.isInline
    /\ ~IsSeoCritical(s)
    /\ s.category \in {"consent", "ab_testing"}
    /\ s.recommendation.suggestedStrategy = "head-sync"
    /\ s.position.location = "head"
    /\ s.loading.strategy = "none"

\* C25: an external script that is not SEO-critical and is already in the
\* state its category policy recommends is not flagged: a consent or
\* ab_testing script (policy head-sync) in the head with strategy none has
\* hasIssue false.
C25_RecommendedStateNotFlagged ==
    \A s \in Processed : InHeadSyncState(s) => ~s.recommendation.hasIssue

\* the states a chat script can be put in: the same source at any position
\* and with any async/defer/type combination and timing, as the handler
\* would then hand it to generateRecommendation
StatesOf(s) ==
    {processScript(in, 0) :
        in \in {i \in ExternalInputs : i.category = s.category /\ i.script.src = s.src}}

NotAnIssue(s) == ~s.recommendation.hasIssue /\ chatWidgetsSync(<<s>>) = <<>>

\* C26: a chat script can be brought to a state that is not an issue: for
\* every chat script the handler has processed there is a position and a
\* loading strategy the handler produces (none, async, defer, module) in
\* which it has hasIssue false and is not counted in the chat-widget bucket.
C26_ChatCanBeResolved ==
    \A s \in Processed :
        (s.category = "chat" /\ ~s.isInline) => \E t \in StatesOf(s) : NotAnIssue(t)

\* what holds instead: whatever has been processed, a chat script is counted
\* in the chat-widget bucket
ChatAlwaysCounted ==
    \A s \in Processed : s.category = "chat" => chatWidgetsSync(<<s>>) = <<s>>

\* how early in the document a zone lies: the later, the lower
ZoneRank(l) ==
    CASE l = "body-end" -> 0 [] l = "body-middle" -> 1 [] l = "body-start" -> 2
      [] l = "head" -> 3

\* C27: with strategy and size fixed, the blocking score never rises as the
\* resource moves later in the document:
\* score(body-end) <= score(body-middle) <= score(body-start) <= score(head).
C27_ScoreFollowsDocumentOrder ==
    (/\ OnlyChanged("position")
     /\ ZoneRank(scores[2].resource.position.location)
            >= ZoneRank(scores[1].resource.position.location))
        => scores[2].score >= scores[1].score

Words(code) == Range(code)

\* C28: for an external SEO-critical script the code example agrees with the
\* suggested strategy: where the strategy is keep-sync-in-head (consent
\* management) the example carries neither async nor defer, and where it is
\* async the example carries async.
C28_CodeExampleAgrees ==
    \A s \in Processed :
        (~s.isInline /\ IsSeoCritical(s)) =>
            \A vendor \in Vendors :
                LET code == seoCodeExample(s, vendor)
                IN  /\ s.recommendation.suggestedStrategy = "keep-sync-in-head" =>
                          /\ "async" \notin Words(code)
                          /\ "defer" \notin Words(code)
                    /\ s.recommendation.suggestedStrategy = "async" =>
                          "async" \in Words(code)

InFlight == Len(handleSubmit)

\* C29: on the render-blocking page at most one request is in flight, loading
\* is true exactly while one is, loading becomes false again after either
\* outcome, results and error are never both set, and a submit clears both.
C29_OneRequestAtATime ==
    /\ [](InFlight <= 1)
    /\ [](pageLoading <=> InFlight = 1)
    /\ [](~(pageResults # Undefined /\ pageError # Undefined))
    /\ [][submits' # submits => pageResults' = Undefined /\ pageError' = Undefined]_vars
    /\ (pageLoading ~> ~pageLoading)

\* a second analysis has run and failed: its error is shown, nothing is in flight
C29_Witness ==
    /\ submits = 2
    /\ InFlight = 0
    /\ ~pageLoading
    /\ pageError # Undefined
    /\ pageResults = Undefined

====
